---- MODULE Spec2Model ----
(***************************************************************************)
(* ERA5 interactive maps (app.py): a Streamlit script that is re-executed  *)
(* top to bottom on every widget interaction.  The state is the widget     *)
(* store of the session, the three st.cache_resource stores and the values *)
(* the last script run computed.                                           *)
(*                                                                         *)
(* Numbers.  Field values are integers counting hundredths of the table    *)
(* unit (27315 is 273.15 K); colour limits, slider values and the slider   *)
(* step count millionths of a hundredth (1e-6), so that the /50 of the     *)
(* step, the 1e-6 fallback and the 1 % / 99 % interpolation are exact.     *)
(* Text.  The non-ASCII characters of the labels are transliterated        *)
(* (degC, " * " for the bullet, "-1" for superscripts).                    *)
(***************************************************************************)
EXTENDS Integers, Sequences, FiniteSets, TLC

VARIABLES field_type, choice, plevel, yr, mon, show_anom, show_coast,
          sliderMin, sliderMax, year_cache, clim_cache, coast_cache,
          opens, run, runs, inp, out

vars == <<field_type, choice, plevel, yr, mon, show_anom, show_coast,
          sliderMin, sliderMax, year_cache, clim_cache, coast_cache,
          opens, run, runs, inp, out>>

appVars == <<field_type, choice, plevel, yr, mon, show_anom, show_coast,
             sliderMin, sliderMax, year_cache, clim_cache, coast_cache,
             opens, run, runs>>

(* ------------------------------ bounds --------------------------------- *)
MaxRuns  == 3
NYears   == 2
NMonths  == 2
NLevels  == 2
FieldLen == 2
NStops   == 2

(* ----------------------------- constants ------------------------------- *)
YEARS == [i \in 1..43 |-> 1979 + i]

COMMON_PLEVELS == <<975, 850, 700, 500, 250, 100, 50, 10>>

CLIM_DIR == "climatology"

\* <<choice, domain, code, vname, units, cmap_abs, cmap_anom>>
SURFACE ==
  << <<"Sea-surface temperature", "sfc", "034", "sstk", "degC",   "thermal", "RdBu_r">>,
     <<"CAPE",                    "sfc", "059", "cape", "J kg-1", "viridis", "PuOr">>,
     <<"Surface geopotential",    "sfc", "129", "z",    "m2 s-2", "magma",   "RdBu_r">>,
     <<"Surface pressure",        "sfc", "134", "sp",   "hPa",    "icefire", "RdBu_r">>,
     <<"Mean sea-level press.",   "sfc", "151", "msl",  "hPa",    "icefire", "RdBu_r">>,
     <<"10-m zonal wind",         "sfc", "165", "10u",  "m s-1",  "curl",    "RdBu_r">>,
     <<"10-m meridional wind",    "sfc", "166", "10v",  "m s-1",  "curl_r",  "RdBu_r">>,
     <<"2-m temperature",         "sfc", "167", "2t",   "degC",   "thermal", "RdBu_r">> >>

PRESSURE ==
  << <<"Potential vorticity", "pl", "060", "pv", "PVU",     "plasma",  "RdBu_r">>,
     <<"Geopotential",        "pl", "129", "z",  "m2 s-2",  "magma",   "RdBu_r">>,
     <<"Temperature",         "pl", "130", "t",  "K",       "thermal", "RdBu_r">>,
     <<"Zonal wind",          "pl", "131", "u",  "m s-1",   "curl",    "RdBu_r">>,
     <<"Meridional wind",     "pl", "132", "v",  "m s-1",   "curl_r",  "RdBu_r">>,
     <<"Specific humidity",   "pl", "133", "q",  "kg kg-1", "viridis", "BrBG">>,
     <<"Vertical velocity",   "pl", "135", "w",  "Pa s-1",  "icefire", "RdBu">>,
     <<"Relative vorticity",  "pl", "138", "vo", "s-1",     "plasma",  "RdBu_r">>,
     <<"Divergence",          "pl", "155", "d",  "s-1",     "plasma",  "RdBu_r">>,
     <<"Relative humidity",   "pl", "157", "r",  "%",       "viridis", "BrBG">>,
     <<"Ozone",               "pl", "203", "o3", "kg kg-1", "viridis", "RdBu_r">> >>

\* plevel = None
None == -1

(* --------------------------- widget options ---------------------------- *)
Names(table) == {table[i][1] : i \in 1..Len(table)}

Row(table, name) == table[CHOOSE i \in 1..Len(table) : table[i][1] = name]

YearOptions  == {YEARS[i] : i \in 1..NYears}
MonthOptions == 1..NMonths
LevelOptions == {COMMON_PLEVELS[i] : i \in 1..NLevels}

\* the slices the remote dataset and the climatology file may hold
RawVals  == {-200, 200}
ClimVals == {0, -27315}

RECURSIVE Tuples(_, _)
Tuples(n, S) ==
  IF n = 0 THEN {<<>>}
  ELSE {Append(t, v) : t \in Tuples(n - 1, S), v \in S}

Fields     == Tuples(FieldLen, RawVals)
ClimFields == Tuples(FieldLen, ClimVals)

(* ------------------------------ helpers -------------------------------- *)
\* a URL that files every variable under the surface directory
rda_url_sfc_dir(y, dom, code, var) ==
  LET base  == "https://thredds.rda.ucar.edu/thredds/dodsC/files/g/d633001_nc/"
      extra == IF var \in {"u", "v"} THEN "uv" ELSE "sc"
      tail  == "e5.moda.an.sfc.128_" \o code \o "_" \o var \o ".ll025" \o extra \o "."
  IN  base \o "e5.moda.an.sfc/" \o ToString(y) \o "/" \o tail
      \o ToString(y) \o "010100_" \o ToString(y) \o "120100.nc"

\* a URL whose grid suffix is chosen by the last letter of the short name
rda_url_last_letter(y, dom, code, var) ==
  LET base  == "https://thredds.rda.ucar.edu/thredds/dodsC/files/g/d633001_nc/"
      extra == IF SubSeq(var, Len(var), Len(var)) \in {"u", "v"} THEN "uv" ELSE "sc"
      tail  == IF dom = "sfc"
               THEN "e5.moda.an.sfc.128_" \o code \o "_" \o var \o ".ll025sc."
               ELSE "e5.moda.an.pl.128_" \o code \o "_" \o var \o ".ll025"
                    \o extra \o "."
  IN  base \o "e5.moda.an." \o dom \o "/" \o ToString(y) \o "/" \o tail
      \o ToString(y) \o "010100_" \o ToString(y) \o "120100.nc"

rda_url(y, dom, code, var) ==
  LET base  == "https://thredds.rda.ucar.edu/thredds/dodsC/files/g/d633001_nc/"
      extra == IF var \in {"u", "v"} THEN "uv" ELSE "sc"
      tail  == IF dom = "sfc"
               THEN "e5.moda.an.sfc.128_" \o code \o "_" \o var \o ".ll025sc."
               ELSE "e5.moda.an.pl.128_" \o code \o "_" \o var \o ".ll025"
                    \o extra \o "."
  IN  base \o "e5.moda.an." \o dom \o "/" \o ToString(y) \o "/" \o tail
      \o ToString(y) \o "010100_" \o ToString(y) \o "120100.nc"

\* str() of a level inside an f-string
LevelStr(lvl) == IF lvl = None THEN "None" ELSE ToString(lvl)

\* the file load_clim opens
clim_path(dom, var, lvl) ==
  CLIM_DIR \o "/" \o (IF dom = "sfc" THEN "sfc" ELSE "pl") \o "/"
  \o (IF dom = "sfc" THEN var \o ".nc" ELSE var \o "_" \o LevelStr(lvl) \o ".nc")

\* the n-th object a wrapped function has returned for one argument
Object(fn, nth) == [fn |-> fn, nth |-> nth]

NoObject == Object("none", 0)

\* a cache that holds one entry (max_entries=1): a miss evicts what is stored
cache_resource_one_entry(cache, key, fresh, ok) ==
  IF key \in DOMAIN cache
  THEN [cache |-> cache, value |-> cache[key], called |-> FALSE, raised |-> FALSE]
  ELSE IF ok
       THEN [cache |-> (key :> fresh), value |-> fresh,
             called |-> TRUE, raised |-> FALSE]
       ELSE [cache |-> cache, value |-> NoObject, called |-> FALSE, raised |-> TRUE]

\* st.cache_resource: a call of the wrapped function f with argument key.
\* fresh is the object the wrapped function would return, ok whether it
\* returns at all (an exception is propagated and nothing is stored).
cache_resource(cache, key, fresh, ok) ==
  IF key \in DOMAIN cache
  THEN [cache |-> cache, value |-> cache[key], called |-> FALSE, raised |-> FALSE]
  ELSE IF ok
       THEN [cache |-> cache @@ (key :> fresh), value |-> fresh,
             called |-> TRUE, raised |-> FALSE]
       ELSE [cache |-> cache, value |-> NoObject, called |-> FALSE, raised |-> TRUE]

\* the count of completed calls of the wrapped functions
Count(cnt, key) == IF key \in DOMAIN cnt THEN cnt[key] ELSE 0

Bump(cnt, key, called) ==
  IF called
  THEN [k \in DOMAIN cnt \cup {key} |-> IF k = key THEN Count(cnt, key) + 1 ELSE cnt[k]]
  ELSE cnt

(* array arithmetic *)
MapSub(a, k)  == [i \in 1..Len(a) |-> a[i] - k]
MapDiv(a, k)  == [i \in 1..Len(a) |-> a[i] \div k]
Minus(a, b)   == [i \in 1..Len(a) |-> a[i] - b[i]]
Abs(v)        == IF v < 0 THEN -v ELSE v
MapAbs(a)     == [i \in 1..Len(a) |-> Abs(a[i])]
nanmin(a)     == CHOOSE v \in {a[i] : i \in 1..Len(a)} : \A i \in 1..Len(a) : v <= a[i]
nanmax(a)     == CHOOSE v \in {a[i] : i \in 1..Len(a)} : \A i \in 1..Len(a) : v >= a[i]

RECURSIVE Insert(_, _)
Insert(s, v) ==
  IF s = <<>> THEN <<v>>
  ELSE IF v <= Head(s) THEN <<v>> \o s
  ELSE <<Head(s)>> \o Insert(Tail(s), v)

RECURSIVE Sorted(_)
Sorted(a) == IF a = <<>> THEN <<>> ELSE Insert(Sorted(Tail(a)), Head(a))

\* a field value or limit in units of 1e-6
Micro(v) == v * 10000

\* np.nanquantile(a, pct/100), linear interpolation, in units of 1e-6
nanquantile(a, pct) ==
  LET s    == Sorted(a)
      h    == pct * (Len(a) - 1)
      idx  == h \div 100
      frac == h % 100
  IN  IF frac = 0 THEN Micro(s[idx + 1])
      ELSE Micro(s[idx + 1]) + 100 * frac * (s[idx + 2] - s[idx + 1])

\* unit conversions whose Kelvin list also names the surface pressure
unit_conversions_sp(vname, da, units) ==
  LET k == IF vname \in {"sstk", "2t", "t", "sp"}
           THEN [da |-> MapSub(da, 27315), units |-> "degC", n |-> 1]
           ELSE [da |-> da, units |-> units, n |-> 0]
  IN  IF vname \in {"sp", "msl"}
      THEN [da |-> MapDiv(k.da, 100), units |-> "hPa", n |-> k.n + 1]
      ELSE k

\* unit conversions: [da, units, n] with n the number of conversions applied
unit_conversions(vname, da, units) ==
  LET k == IF vname \in {"sstk", "2t", "t"}
           THEN [da |-> MapSub(da, 27315), units |-> "degC", n |-> 1]
           ELSE [da |-> da, units |-> units, n |-> 0]
  IN  IF vname \in {"sp", "msl"}
      THEN [da |-> MapDiv(k.da, 100), units |-> "hPa", n |-> k.n + 1]
      ELSE k

\* an anomaly step that forgets to switch the colour map
anomaly_abs_cmap(show, da, clim, units, cmap_abs, cmap_anom) ==
  IF show
  THEN [da |-> Minus(da, clim), cmap |-> cmap_abs, units |-> units \o " anomaly"]
  ELSE [da |-> da, cmap |-> cmap_abs, units |-> units]

\* anomaly: [da, cmap, units]
anomaly(show, da, clim, units, cmap_abs, cmap_anom) ==
  IF show
  THEN [da |-> Minus(da, clim), cmap |-> cmap_anom, units |-> units \o " anomaly"]
  ELSE [da |-> da, cmap |-> cmap_abs, units |-> units]

\* default_min, default_max
defaults(show, da) ==
  IF show
  THEN [min |-> -nanmax(MapAbs(da)), max |-> nanmax(MapAbs(da))]
  ELSE [min |-> nanmin(da), max |-> nanmax(da)]

\* step, in units of 1e-6
slider_step(default_min, default_max) ==
  LET q == 200 * (default_max - default_min)
  IN  IF q # 0 THEN q ELSE 1

Pad2(m) == IF m < 10 THEN "0" \o ToString(m) ELSE ToString(m)

make_title(ch, m, y, lvl, show) ==
  LET t == ch \o " * " \o Pad2(m) \o "/" \o ToString(y)
           \o (IF lvl # None /\ lvl # 0 THEN " * " \o ToString(lvl) \o " hPa" ELSE "")
  IN  IF show THEN t \o " * anomaly" ELSE t

(* ------------------------------ widgets -------------------------------- *)
\* a slider that no run has rendered
NoSlider == [id |-> <<>>, lo |-> 0, hi |-> 0, step |-> 1, value |-> 0]

\* st.sidebar.slider(label, min_value, max_value, value=value, step=step):
\* the widget keeps the value the user gave it as long as its arguments are
\* the same, and starts from value otherwise.  A value outside
\* [min_value, max_value] is either refused with an exception (strict) or
\* the bounds are widened to hold it, as the library decides.
slider(label, min_value, max_value, value, step, state, strict) ==
  LET outside == value < min_value \/ value > max_value
      id      == <<label, min_value, max_value, value, step>>
      cur     == IF state.id = id THEN state.value ELSE value
  IN  IF outside /\ strict
      THEN [raised |-> TRUE, value |-> value, state |-> NoSlider]
      ELSE [raised |-> FALSE, value |-> cur,
            state  |-> [id    |-> id,
                        lo    |-> IF value < min_value THEN value ELSE min_value,
                        hi    |-> IF value > max_value THEN value ELSE max_value,
                        step  |-> step,
                        value |-> cur]]

\* the positions a user can drag a slider to
Stops == {(50 * i) \div NStops : i \in 0..NStops}

SliderChoices(state) ==
  {v \in {state.lo + k * state.step : k \in Stops} : v <= state.hi}

(* ---------------------------- the script run --------------------------- *)

\* what a run has computed when nothing has been computed; prev remembers
\* of the run before it whether the button triggered it and its domain
NoRun ==
  [stage |-> "none", button |-> FALSE,
   prev |-> [button |-> FALSE, domain |-> ""],
   domain |-> "", code |-> "", vname |-> "", table_units |-> "",
   cmap_abs |-> "", cmap_anom |-> "",
   url |-> "", ds |-> NoObject, opened |-> FALSE,
   isel_time |-> None, sel_level |-> None, raw |-> <<>>,
   conv |-> 0, conv_da |-> <<>>, conv_units |-> "",
   clim_called |-> FALSE, clim_loaded |-> FALSE, clim_key |-> <<>>,
   clim_path |-> "",
   clim_obj |-> NoObject, clim_month |-> None, clim |-> <<>>,
   da |-> <<>>, units |-> "", cmap |-> "",
   data_min |-> 0, data_max |-> 0, default_min |-> 0, default_max |-> 0,
   step |-> 0, slider_min |-> 0, slider_max |-> 0, cmin |-> 0, cmax |-> 0,
   error |-> "", title |-> "", fig |-> FALSE,
   coast_called |-> FALSE, coast_built |-> FALSE, coast |-> NoObject]

\* a sidebar whose surface branch does not reset the level
sidebar_stale_level(w) ==
  LET table == IF w.field_type = "Surface" THEN SURFACE ELSE PRESSURE
      ch    == IF w.choice \in Names(table) THEN w.choice ELSE table[1][1]
  IN  [w EXCEPT !.choice = ch,
                !.plevel = IF w.plevel # None THEN w.plevel
                           ELSE IF w.field_type = "Surface" THEN None
                           ELSE COMMON_PLEVELS[1]]

\* the sidebar: the values the selection widgets return for the widget
\* store w.  A selectbox whose options are not the ones its stored value
\* was chosen from is a new widget and returns its first option; the level
\* selectbox exists only in the pressure-level branch.
sidebar(w) ==
  LET table == IF w.field_type = "Surface" THEN SURFACE ELSE PRESSURE
      ch    == IF w.choice \in Names(table) THEN w.choice ELSE table[1][1]
  IN  [w EXCEPT !.choice = ch,
                !.plevel = IF w.field_type = "Surface" THEN None
                           ELSE IF w.plevel = None THEN COMMON_PLEVELS[1]
                           ELSE w.plevel]

TableOf(w) == IF w.field_type = "Surface" THEN SURFACE ELSE PRESSURE

\* an auto-scale that overrides the upper limit only
limits_max_only(btn, slider_min, slider_max, da) ==
  IF btn
  THEN [cmin |-> slider_min, cmax |-> nanquantile(da, 99)]
  ELSE [cmin |-> slider_min, cmax |-> slider_max]

\* colour limits: the slider values, or the quantiles when the button was pressed
limits(btn, slider_min, slider_max, da) ==
  IF btn
  THEN [cmin |-> nanquantile(da, 1), cmax |-> nanquantile(da, 99)]
  ELSE [cmin |-> slider_min, cmax |-> slider_max]

\* a check that lets equal limits through
stops_strict(cmin, cmax) == cmin > cmax

\* cmin >= cmax: st.sidebar.error and st.stop
stops(cmin, cmax) == cmin >= cmax

\* the only member of a one-element set
The(S) == CHOOSE x \in S : TRUE

\* The run context a script execution starts from: the widget store w (after
\* sidebar), btn the value st.sidebar.button returns, e what the outside
\* world answers in this run, the three stores, and the empty run record.
\* done is set when the run has ended (an exception or st.stop).
Start(w, btn, e) ==
  [w |-> w, btn |-> btn, e |-> e, done |-> FALSE,
   year_cache |-> year_cache, clim_cache |-> clim_cache,
   coast_cache |-> coast_cache, opens |-> opens,
   sliderMin |-> NoSlider, sliderMax |-> NoSlider,
   run |-> [NoRun EXCEPT !.button = btn,
                         !.prev = [button |-> run.button, domain |-> run.domain]]]

\* domain, code, vname, units, cmap_abs, cmap_anom = TABLE[choice]
run_select(c) ==
  LET row == Row(TableOf(c.w), c.w.choice)
  IN  [c EXCEPT !.run.stage = "select",
                !.run.domain = row[2], !.run.code = row[3], !.run.vname = row[4],
                !.run.table_units = row[5], !.run.cmap_abs = row[6],
                !.run.cmap_anom = row[7]]

\* ds = open_year(rda_url(yr, domain, code, vname))
run_open_year(c) ==
  LET url == rda_url(c.w.yr, c.run.domain, c.run.code, c.run.vname)
      oy  == cache_resource(c.year_cache, url,
                            Object("open_year", Count(c.opens.open_year, url) + 1), c.e.open_ok)
  IN  [c EXCEPT !.run.stage = "open_year", !.run.url = url,
                !.run.ds = oy.value, !.run.opened = oy.called,
                !.year_cache = oy.cache,
                !.opens.open_year = Bump(@, url, oy.called),
                !.done = oy.raised]

\* da = ds[...].isel(time=mon-1), .sel(level=plevel) when plevel is not None
run_load_field(c) ==
  IF c.done THEN c
  ELSE [c EXCEPT !.run.stage = "load_field", !.run.isel_time = c.w.mon - 1,
                 !.run.sel_level = IF c.w.plevel # None THEN c.w.plevel ELSE None,
                 !.run.raw = c.e.raw, !.run.da = c.e.raw,
                 !.run.units = c.run.table_units]

run_unit_conversions(c) ==
  IF c.done THEN c
  ELSE LET uc == unit_conversions(c.run.vname, c.run.da, c.run.units)
       IN  [c EXCEPT !.run.stage = "unit_conversions", !.run.conv = uc.n,
                     !.run.conv_da = uc.da, !.run.conv_units = uc.units,
                     !.run.da = uc.da, !.run.units = uc.units,
                     !.run.cmap = c.run.cmap_abs]

\* clim = load_clim(domain, vname, plevel), under if show_anom
run_load_clim(c) ==
  IF c.done \/ ~c.w.show_anom THEN c
  ELSE LET key == <<c.run.domain, c.run.vname, c.w.plevel>>
           lc  == cache_resource(c.clim_cache, key,
                                 Object("load_clim", Count(c.opens.load_clim, key) + 1),
                                 c.e.clim_ok)
       IN  [c EXCEPT !.run.stage = "load_clim", !.run.clim_called = TRUE,
                     !.run.clim_key = key,
                     !.run.clim_path = clim_path(key[1], key[2], key[3]),
                     !.run.clim_obj = lc.value, !.run.clim_loaded = lc.called,
                     !.clim_cache = lc.cache,
                     !.opens.load_clim = Bump(@, key, lc.called),
                     !.done = lc.raised]

\* da = da - clim.sel(month=mon); cmap = cmap_anom; units += " anomaly"
run_anomaly(c) ==
  IF c.done THEN c
  ELSE LET an == anomaly(c.w.show_anom, c.run.da, c.e.clim, c.run.units,
                         c.run.cmap_abs, c.run.cmap_anom)
       IN  [c EXCEPT !.run.stage = "anomaly",
                     !.run.clim_month = IF c.w.show_anom THEN c.w.mon ELSE None,
                     !.run.clim = IF c.w.show_anom THEN c.e.clim ELSE <<>>,
                     !.run.da = an.da, !.run.units = an.units,
                     !.run.cmap = an.cmap]

\* data_min, data_max, default_min, default_max, step
run_controls(c) ==
  IF c.done THEN c
  ELSE LET df == defaults(c.w.show_anom, c.run.da)
       IN  [c EXCEPT !.run.stage = "controls",
                     !.run.data_min = nanmin(c.run.da),
                     !.run.data_max = nanmax(c.run.da),
                     !.run.default_min = df.min, !.run.default_max = df.max,
                     !.run.step = slider_step(df.min, df.max)]

\* cmin = st.sidebar.slider("Min", data_min, data_max, value=default_min, ...)
run_slider_min(c) ==
  IF c.done THEN c
  ELSE LET sl == slider("Min", Micro(c.run.data_min), Micro(c.run.data_max),
                        Micro(c.run.default_min), c.run.step, c.w.sliderMin,
                        c.e.strict)
       IN  [c EXCEPT !.run.stage = "slider_min", !.run.slider_min = sl.value,
                     !.run.cmin = sl.value, !.sliderMin = sl.state,
                     !.done = sl.raised]

\* cmax = st.sidebar.slider("Max", data_min, data_max, value=default_max, ...)
run_slider_max(c) ==
  IF c.done THEN c
  ELSE LET sl == slider("Max", Micro(c.run.data_min), Micro(c.run.data_max),
                        Micro(c.run.default_max), c.run.step, c.w.sliderMax,
                        c.e.strict)
       IN  [c EXCEPT !.run.stage = "slider_max", !.run.slider_max = sl.value,
                     !.run.cmax = sl.value, !.sliderMax = sl.state,
                     !.done = sl.raised]

\* if st.sidebar.button("Auto-scale (98 % of data)"): cmin, cmax = quantiles
run_auto_scale(c) ==
  IF c.done THEN c
  ELSE LET lim == limits(c.btn, c.run.cmin, c.run.cmax, c.run.da)
       IN  [c EXCEPT !.run.stage = "auto_scale",
                     !.run.cmin = lim.cmin, !.run.cmax = lim.cmax]

\* if cmin >= cmax: st.sidebar.error(...); st.stop()
run_check(c) ==
  IF c.done THEN c
  ELSE IF stops(c.run.cmin, c.run.cmax)
       THEN [c EXCEPT !.run.stage = "stop",
                      !.run.error = "Min must be less than Max", !.done = TRUE]
       ELSE [c EXCEPT !.run.stage = "check"]

\* title, px.imshow, fig.update_coloraxes
run_figure(c) ==
  IF c.done THEN c
  ELSE [c EXCEPT !.run.stage = "figure",
                 !.run.title = make_title(c.w.choice, c.w.mon, c.w.yr,
                                          c.w.plevel, c.w.show_anom)]

\* if show_coast: fig.add_trace(coastlines_trace())
run_coastlines(c) ==
  IF c.done \/ ~c.w.show_coast THEN c
  ELSE LET key == <<"110m", 10>>
           ct  == cache_resource(c.coast_cache, key,
                                 Object("coastlines_trace",
                                        Count(c.opens.coastlines_trace, key) + 1),
                                 c.e.coast_ok)
       IN  [c EXCEPT !.run.stage = "coastlines_trace",
                     !.run.coast_called = TRUE, !.run.coast = ct.value,
                     !.run.coast_built = ct.called,
                     !.coast_cache = ct.cache,
                     !.opens.coastlines_trace = Bump(@, key, ct.called),
                     !.done = ct.raised]

\* st.plotly_chart(fig)
run_plot(c) ==
  IF c.done THEN c
  ELSE [c EXCEPT !.run.stage = "plot", !.run.fig = TRUE, !.done = TRUE]

\* One execution of the script, top to bottom.
Script(w, btn, e) ==
  The({run_plot(c13) : c13 \in
      {run_coastlines(c12) : c12 \in
      {run_figure(c11) : c11 \in
      {run_check(c10) : c10 \in
      {run_auto_scale(c9) : c9 \in
      {run_slider_max(c8) : c8 \in
      {run_slider_min(c7) : c7 \in
      {run_controls(c6) : c6 \in
      {run_anomaly(c5) : c5 \in
      {run_load_clim(c4) : c4 \in
      {run_unit_conversions(c3) : c3 \in
      {run_load_field(c2) : c2 \in
      {run_open_year(c1) : c1 \in
      {run_select(c0) : c0 \in {Start(w, btn, e)}}}}}}}}}}}}}}})

(* ------------------------------ actions -------------------------------- *)
\* the widget store of the session
Widgets ==
  [field_type |-> field_type, choice |-> choice, plevel |-> plevel,
   yr |-> yr, mon |-> mon, show_anom |-> show_anom, show_coast |-> show_coast,
   sliderMin |-> sliderMin, sliderMax |-> sliderMax]

\* the widget store of a new session: every widget at its default
Defaults ==
  [field_type |-> "Surface", choice |-> SURFACE[1][1], plevel |-> None,
   yr |-> YEARS[1], mon |-> 1, show_anom |-> FALSE, show_coast |-> TRUE,
   sliderMin |-> NoSlider, sliderMax |-> NoSlider]

\* what the outside world may answer in a run for the widget store w:
\* the slice read from the remote dataset, the climatology slice, whether
\* the opens succeed, and how the slider treats a value outside its bounds.
\* An answer the run cannot reach (after a failed open) is left at a fixed
\* value.
Answer(raw, clim, open_ok, clim_ok, coast_ok, strict) ==
  [raw |-> raw, clim |-> clim, open_ok |-> open_ok, clim_ok |-> clim_ok,
   coast_ok |-> coast_ok, strict |-> strict]

Envs(w) ==
  LET row   == Row(TableOf(w), w.choice)
      url   == rda_url(w.yr, row[2], row[3], row[4])
      key   == <<row[2], row[4], w.plevel>>
      raw0  == [i \in 1..FieldLen |-> 0]
      clims == IF w.show_anom THEN ClimFields ELSE {<<>>}
  IN  (IF url \in DOMAIN year_cache THEN {}
       ELSE {Answer(raw0, <<>>, FALSE, TRUE, TRUE, FALSE)})
      \cup
      (IF w.show_anom /\ key \notin DOMAIN clim_cache
       THEN {Answer(raw, <<>>, TRUE, FALSE, TRUE, FALSE) : raw \in Fields}
       ELSE {})
      \cup
      {Answer(raw, clim, TRUE, TRUE, ok, strict) :
         raw \in Fields, clim \in clims,
         ok \in IF w.show_coast /\ <<"110m", 10>> \notin DOMAIN coast_cache
                THEN BOOLEAN ELSE {TRUE},
         strict \in IF w.show_anom THEN BOOLEAN ELSE {FALSE}}

\* the script is run for the widget store w0
Rerun(w0, btn) ==
  /\ runs < MaxRuns
  /\ \E w \in {sidebar(w0)} :
       \E e \in Envs(w) :
         \E r \in {Script(w, btn, e)} :
           /\ field_type' = w.field_type
           /\ choice' = w.choice
           /\ plevel' = w.plevel
           /\ yr' = w.yr
           /\ mon' = w.mon
           /\ show_anom' = w.show_anom
           /\ show_coast' = w.show_coast
           /\ sliderMin' = r.sliderMin
           /\ sliderMax' = r.sliderMax
           /\ year_cache' = r.year_cache
           /\ clim_cache' = r.clim_cache
           /\ coast_cache' = r.coast_cache
           /\ opens' = r.opens
           /\ run' = r.run
           /\ runs' = runs + 1
  /\ UNCHANGED <<inp, out>>

\* a new session opens the page
Load == Rerun(Defaults, FALSE)

Loaded == run.stage # "none"

SetDomain ==
  /\ Loaded
  /\ \E d \in {"Surface", "Pressure level"} \ {field_type} :
       Rerun([Widgets EXCEPT !.field_type = d], FALSE)

SetVariable ==
  /\ Loaded
  /\ \E c \in Names(TableOf(Widgets)) \ {choice} :
       Rerun([Widgets EXCEPT !.choice = c], FALSE)

SetLevel ==
  /\ Loaded
  /\ field_type = "Pressure level"
  /\ \E l \in LevelOptions \ {plevel} :
       Rerun([Widgets EXCEPT !.plevel = l], FALSE)

SetYear ==
  /\ Loaded
  /\ \E y \in YearOptions \ {yr} : Rerun([Widgets EXCEPT !.yr = y], FALSE)

SetMonth ==
  /\ Loaded
  /\ \E m \in MonthOptions \ {mon} : Rerun([Widgets EXCEPT !.mon = m], FALSE)

ToggleAnom ==
  /\ Loaded
  /\ Rerun([Widgets EXCEPT !.show_anom = ~show_anom], FALSE)

ToggleCoast ==
  /\ Loaded
  /\ Rerun([Widgets EXCEPT !.show_coast = ~show_coast], FALSE)

SetMin ==
  /\ sliderMin # NoSlider
  /\ \E v \in SliderChoices(sliderMin) \ {sliderMin.value} :
       Rerun([Widgets EXCEPT !.sliderMin.value = v], FALSE)

SetMax ==
  /\ sliderMax # NoSlider
  /\ \E v \in SliderChoices(sliderMax) \ {sliderMax.value} :
       Rerun([Widgets EXCEPT !.sliderMax.value = v], FALSE)

\* the button exists once the script has passed both sliders
AutoScale ==
  /\ run.stage \in {"stop", "coastlines_trace", "plot"}
  /\ Rerun(Widgets, TRUE)

InitApp ==
  /\ field_type = Defaults.field_type
  /\ choice = Defaults.choice
  /\ plevel = Defaults.plevel
  /\ yr = Defaults.yr
  /\ mon = Defaults.mon
  /\ show_anom = Defaults.show_anom
  /\ show_coast = Defaults.show_coast
  /\ sliderMin = NoSlider
  /\ sliderMax = NoSlider
  /\ year_cache = <<>>
  /\ clim_cache = <<>>
  /\ coast_cache = <<>>
  /\ opens = [open_year |-> <<>>, load_clim |-> <<>>, coastlines_trace |-> <<>>]
  /\ run = NoRun
  /\ runs = 0

Init ==
  /\ InitApp
  /\ inp = <<>>
  /\ out = <<>>

Next ==
  \/ Load
  \/ SetDomain
  \/ SetVariable
  \/ SetLevel
  \/ SetYear
  \/ SetMonth
  \/ ToggleAnom
  \/ ToggleCoast
  \/ SetMin
  \/ SetMax
  \/ AutoScale

Spec == Init /\ [][Next]_vars

(* --------------------------- coastlines_trace -------------------------- *)
\* np.nan in the x and y lists (no coordinate has this value)
NaN == 999

\* gap=10
DefaultGap == 10

MaxPts == 2

\* the coordinates a coastline may pass through: <<lon, lat>>
Points == {<<-5, 40>>, <<3, -30>>, <<13, 0>>}

RECURSIVE UpTo(_, _)
\* the sequences over S of length at most n
UpTo(n, S) == IF n = 0 THEN {<<>>} ELSE UpTo(n - 1, S) \cup Tuples(n, S)

LineString(coords) == [type |-> "LineString", coords |-> coords]

MultiLineString(lines) == [type |-> "MultiLineString", geoms |-> lines]

LineStrings == {LineString(c) : c \in UpTo(MaxPts, Points)}

\* feat.geometries(): one line, one multi-line of two lines, or two lines
CoastInputs ==
  {<<a>> : a \in LineStrings}
  \cup {<<MultiLineString(<<a, b>>)>> : a \in LineStrings, b \in LineStrings}
  \cup {<<a, b>> : a \in LineStrings, b \in LineStrings}

\* getattr(geom, "geoms", [geom])
geoms_of(geom) == IF geom.type = "MultiLineString" THEN geom.geoms ELSE <<geom>>

\* np.mod(lon, 360)
mod360(lon) == [k \in 1..Len(lon) |-> lon[k] % 360]

\* a break test that also breaks at a difference of exactly gap
needs_break_at_gap(lon, i, gap) ==
  i < Len(lon) /\ Abs(lon[i + 1] - lon[i]) >= gap

\* i < len(lon)-1 and abs(lon[i+1]-lon[i]) > gap, for the i-th point (from 1)
needs_break(lon, i, gap) ==
  i < Len(lon) /\ Abs(lon[i + 1] - lon[i]) > gap

\* the loop position after the line l of the geometry g
after_line(geoms, g, l) ==
  IF l < Len(geoms_of(geoms[g])) THEN [pc |-> "line", g |-> g, l |-> l + 1]
  ELSE IF g < Len(geoms) THEN [pc |-> "line", g |-> g + 1, l |-> 1]
  ELSE [pc |-> "return", g |-> g, l |-> l]

CoastStart ==
  [pc |-> "line", g |-> 1, l |-> 1, i |-> 0, lon |-> <<>>, lat |-> <<>>,
   xs |-> <<>>, ys |-> <<>>, gap |-> DefaultGap]

\* lon, lat = line.coords.xy; lon = np.mod(lon, 360); the separator
CoastLine ==
  /\ out.pc = "line"
  /\ LET line == geoms_of(inp[out.g])[out.l].coords
         lon  == mod360([k \in 1..Len(line) |-> line[k][1]])
         nxt  == after_line(inp, out.g, out.l)
     IN  out' = IF Len(line) = 0
                THEN [out EXCEPT !.pc = nxt.pc, !.g = nxt.g, !.l = nxt.l,
                                 !.lon = lon, !.lat = <<>>, !.i = 0,
                                 !.xs = Append(@, NaN), !.ys = Append(@, NaN)]
                ELSE [out EXCEPT !.pc = "point", !.i = 1, !.lon = lon,
                                 !.lat = [k \in 1..Len(line) |-> line[k][2]],
                                 !.xs = Append(@, NaN), !.ys = Append(@, NaN)]
  /\ UNCHANGED <<appVars, inp>>

\* one pass of the loop over the points of the line
CoastPoint ==
  /\ out.pc = "point"
  /\ LET brk == needs_break(out.lon, out.i, out.gap)
         xs1 == Append(out.xs, out.lon[out.i])
         ys1 == Append(out.ys, out.lat[out.i])
         nxt == after_line(inp, out.g, out.l)
     IN  out' = IF out.i < Len(out.lon)
                THEN [out EXCEPT !.i = @ + 1,
                                 !.xs = IF brk THEN Append(xs1, NaN) ELSE xs1,
                                 !.ys = IF brk THEN Append(ys1, NaN) ELSE ys1]
                ELSE [out EXCEPT !.pc = nxt.pc, !.g = nxt.g, !.l = nxt.l,
                                 !.xs = IF brk THEN Append(xs1, NaN) ELSE xs1,
                                 !.ys = IF brk THEN Append(ys1, NaN) ELSE ys1]
  /\ UNCHANGED <<appVars, inp>>

\* return go.Scatter(x=xs, y=ys, ...)
CoastReturn ==
  /\ out.pc = "return"
  /\ out' = [out EXCEPT !.pc = "returned"]
  /\ UNCHANGED <<appVars, inp>>

InitCoast ==
  /\ InitApp
  /\ inp \in CoastInputs
  /\ out = CoastStart

NextCoast ==
  \/ CoastLine
  \/ CoastPoint
  \/ CoastReturn

SpecCoast == InitCoast /\ [][NextCoast]_vars

(* ------------------------------ cache keys ----------------------------- *)
\* the rows of both tables
Rows ==
  {SURFACE[i] : i \in 1..Len(SURFACE)} \cup {PRESSURE[i] : i \in 1..Len(PRESSURE)}

\* every (row, level) the sidebar can produce
LevelSelections ==
  {<<SURFACE[i], None>> : i \in 1..Len(SURFACE)}
  \cup {<<PRESSURE[i], COMMON_PLEVELS[l]>> :
          i \in 1..Len(PRESSURE), l \in 1..Len(COMMON_PLEVELS)}

\* every selection the sidebar can produce: <<year, row, level>>
Selections ==
  {<<YEARS[y], k[1], k[2]>> : y \in 1..Len(YEARS), k \in LevelSelections}

\* the arguments of open_year and the file of load_clim for the selection inp
KeysApply ==
  /\ out = <<>>
  /\ out' = [url  |-> rda_url(inp[1], inp[2][2], inp[2][3], inp[2][4]),
             path |-> clim_path(inp[2][2], inp[2][4], inp[3])]
  /\ UNCHANGED <<appVars, inp>>

InitKeys ==
  /\ InitApp
  /\ inp \in Selections
  /\ out = <<>>

NextKeys == KeysApply

SpecKeys == InitKeys /\ [][NextKeys]_vars

(* ------------------------------ properties ----------------------------- *)
\* the run has computed its final colour limits
LimitsSet == run.stage \in {"stop", "coastlines_trace", "plot"}

\* the run has passed the anomaly step
FieldSet == run.stage \in {"slider_min", "slider_max", "stop",
                           "coastlines_trace", "plot"}

\* C1: the heatmap is rendered only if the final colour limits satisfy
\* cmin < cmax; a run whose limits have cmin >= cmax (equal limits included)
\* shows "Min must be less than Max" and stops with no figure, no title and
\* no coastline trace.
C1_RenderOnlyIfMinBelowMax ==
  /\ run.fig => LimitsSet /\ run.cmin < run.cmax
  /\ (LimitsSet /\ run.cmin >= run.cmax) =>
       /\ run.stage = "stop"
       /\ run.error = "Min must be less than Max"
       /\ ~run.fig
       /\ run.title = ""
       /\ ~run.coast_called
  /\ run.error # "" => run.stage = "stop" /\ run.cmin >= run.cmax

\* C1 witness: a field that is not constant, the limits made equal with the
\* sliders, and the run stopped with the error.
C1_Witness ==
  /\ run.stage = "stop"
  /\ ~run.button
  /\ run.data_min < run.data_max
  /\ run.cmin = run.cmax

\* the number of places where sub occurs in the string s
Occurrences(sub, s) ==
  Cardinality({i \in 1..(Len(s) - Len(sub) + 1) :
                 SubSeq(s, i, i + Len(sub) - 1) = sub})

\* C2: the anomaly is computed exactly when "Show anomaly" is set.  Set: the
\* field is the converted field minus the climatology of the same (domain,
\* variable, level) at the selected month, the colour map is cmap_anom, and
\* the units label and the title carry the anomaly suffix once.  Not set:
\* load_clim is not called, the field is the converted field, the colour map
\* is cmap_abs and neither label carries the suffix.
C2_AnomalyIffChecked ==
  /\ run.clim_called <=> (show_anom /\ run.stage \notin {"none", "open_year"})
  /\ ~show_anom => ~run.clim_loaded /\ run.clim_key = <<>>
  /\ FieldSet =>
       IF show_anom
       THEN /\ run.da = [i \in 1..Len(run.conv_da) |-> run.conv_da[i] - run.clim[i]]
            /\ run.clim_key = <<run.domain, run.vname, plevel>>
            /\ run.clim_month = mon
            /\ run.cmap = run.cmap_anom
            /\ run.units = run.conv_units \o " anomaly"
            /\ Occurrences("anomaly", run.units) = 1
       ELSE /\ run.da = run.conv_da
            /\ run.cmap = run.cmap_abs
            /\ run.units = run.conv_units
            /\ Occurrences("anomaly", run.units) = 0
  /\ run.title # "" =>
       Occurrences("anomaly", run.title) = IF show_anom THEN 1 ELSE 0

\* C2 witness: an anomaly of a converted variable is plotted, and it differs
\* from the converted field.
C2_Witness ==
  /\ run.fig
  /\ show_anom
  /\ run.conv = 1
  /\ run.da # run.conv_da
  /\ Occurrences(" * anomaly", run.title) = 1

\* the run has passed the unit conversions
Converted == run.stage \notin {"none", "open_year"}

\* C3: for every variable of SURFACE and PRESSURE the unit conversion is
\* applied at most once and before the anomaly step: sstk, 2t and t lose the
\* Kelvin offset and are labelled degC (also t, whose table units are K); sp
\* and msl are divided by 100 and labelled hPa; every other variable keeps
\* its values and its table units; no variable gets both conversions.
C3_UnitConversionOnce ==
  Converted =>
    /\ \E i \in 1..Len(TableOf(Widgets)) :
         /\ TableOf(Widgets)[i][1] = choice
         /\ TableOf(Widgets)[i][4] = run.vname
         /\ TableOf(Widgets)[i][5] = run.table_units
    /\ run.conv <= 1
    /\ run.vname \in {"sstk", "2t", "t"} =>
         /\ run.conv_da = [i \in 1..Len(run.raw) |-> run.raw[i] - 27315]
         /\ run.conv_units = "degC"
    /\ run.vname \in {"sp", "msl"} =>
         /\ Len(run.conv_da) = Len(run.raw)
         /\ \A i \in 1..Len(run.raw) : 100 * run.conv_da[i] = run.raw[i]
         /\ run.conv_units = "hPa"
    /\ run.vname \notin {"sstk", "2t", "t", "sp", "msl"} =>
         /\ run.conv = 0
         /\ run.conv_da = run.raw
         /\ run.conv_units = run.table_units
    /\ FieldSet =>
         /\ Len(run.da) = Len(run.conv_da)
         /\ \A i \in 1..Len(run.da) :
              run.da[i] = run.conv_da[i] - (IF show_anom THEN run.clim[i] ELSE 0)

\* C3 witness: pressure-level Temperature, table units K, plotted in degC.
C3_Witness ==
  /\ run.fig
  /\ run.vname = "t"
  /\ run.table_units = "K"
  /\ run.conv_units = "degC"
  /\ run.conv = 1

\* every entry of the store old is in the store new, with the same object
Kept(old, new) ==
  \A k \in DOMAIN old : k \in DOMAIN new /\ new[k] = old[k]

\* every argument has been computed at most once, and exactly the computed
\* arguments are stored
OncePerKey(cnt, cache) ==
  /\ DOMAIN cnt = DOMAIN cache
  /\ \A k \in DOMAIN cnt : cnt[k] = 1

\* a call with argument key in a run: a stored object is returned without
\* calling the wrapped function, and the wrapped function is called only
\* when nothing is stored
Memo(old, key, value, called) ==
  /\ key \in DOMAIN old => value = old[key] /\ ~called
  /\ called => key \notin DOMAIN old

Loaded_field == run.stage \notin {"none", "select", "open_year"}

\* the URL a selection stands for, as the layout of the archive has it
ArchiveUrl(y, dom, code, var) ==
  "https://thredds.rda.ucar.edu/thredds/dodsC/files/g/d633001_nc/"
  \o "e5.moda.an." \o dom \o "/" \o ToString(y) \o "/"
  \o "e5.moda.an." \o dom \o ".128_" \o code \o "_" \o var \o ".ll025"
  \o (IF dom = "pl" /\ var \in {"u", "v"} THEN "uv" ELSE "sc") \o "."
  \o ToString(y) \o "010100_" \o ToString(y) \o "120100.nc"

\* C5: the remote query depends only on (year, domain, code, short name):
\* the URL has the archive's layout, with grid suffix ll025uv exactly for
\* pressure-level u and v and ll025sc otherwise; month, level, anomaly and
\* coastline selections never change it, so a run that changes only those
\* gets the dataset the run before it had, without opening anything; the
\* month is applied as time index mon-1 and the level only for a
\* pressure-level selection.
C5_QueryFromSelection ==
  [][ run'.stage # "none" =>
        /\ \E i \in 1..Len(TableOf(Widgets')) :
             LET row == TableOf(Widgets')[i]
             IN  /\ row[1] = choice'
                 /\ run'.url = ArchiveUrl(yr', row[2], row[3], row[4])
        /\ run'.stage # "open_year" =>
             /\ run'.isel_time = mon' - 1
             /\ run'.sel_level = IF field_type' = "Pressure level"
                                 THEN plevel' ELSE None
        /\ ( /\ Loaded_field
             /\ yr' = yr
             /\ run'.domain = run.domain
             /\ run'.code = run.code
             /\ run'.vname = run.vname ) =>
             /\ run'.url = run.url
             /\ ~run'.opened
             /\ run'.ds = run.ds
    ]_appVars

\* C5 witness: a plotted pressure-level run at the second level that opened
\* nothing and holds the dataset object stored by an earlier run.
C5_Witness ==
  /\ run.domain = "pl"
  /\ run.sel_level = COMMON_PLEVELS[2]
  /\ run.stage = "plot"
  /\ ~run.opened
  /\ run.ds = Object("open_year", 1)

Pressure == field_type = "Pressure level"

\* C6: the pressure level is None exactly for the Surface domain and one of
\* COMMON_PLEVELS exactly for Pressure level; the (domain, code, short name,
\* units, colour maps) tuple is the row of the selected variable in the
\* table of the selected domain, "sfc" for every SURFACE row and "pl" for
\* every PRESSURE row; the level selection, the "<level> hPa" part of the
\* title and the "<var>_<level>.nc" climatology file are used exactly in
\* pressure-level runs, also after an earlier pressure-level run.
C6_LevelIffPressure ==
  /\ field_type \in {"Surface", "Pressure level"}
  /\ plevel = None <=> ~Pressure
  /\ Pressure => \E i \in 1..Len(COMMON_PLEVELS) : plevel = COMMON_PLEVELS[i]
  /\ \A i \in 1..Len(SURFACE) : SURFACE[i][2] = "sfc"
  /\ \A i \in 1..Len(PRESSURE) : PRESSURE[i][2] = "pl"
  /\ run.stage # "none" =>
       /\ <<choice, run.domain, run.code, run.vname, run.table_units,
            run.cmap_abs, run.cmap_anom>>
            \in {TableOf(Widgets)[i] : i \in 1..Len(TableOf(Widgets))}
       /\ run.domain = IF Pressure THEN "pl" ELSE "sfc"
  /\ Loaded_field => (run.sel_level = plevel)
  /\ run.title # "" =>
       /\ Occurrences(" hPa", run.title) = IF Pressure THEN 1 ELSE 0
       /\ Pressure =>
            Occurrences(" * " \o ToString(plevel) \o " hPa", run.title) = 1
  /\ run.clim_called =>
       run.clim_path =
         IF Pressure
         THEN "climatology/pl/" \o run.vname \o "_" \o ToString(plevel) \o ".nc"
         ELSE "climatology/sfc/" \o run.vname \o ".nc"

\* C6 witness: a plotted surface run that follows a pressure-level run.
C6_Witness ==
  /\ run.prev.domain = "pl"
  /\ field_type = "Surface"
  /\ plevel = None
  /\ run.fig
  /\ run.sel_level = None

\* C7: auto-scale overrides the sliders only in the run the button
\* triggers: there the limits are the 1 % and 99 % quantiles of the plotted
\* field whatever the sliders hold, and the cmin < cmax check is applied to
\* them; in every other run the limits are the current values of the Min and
\* Max sliders; the button neither changes a slider's value nor leaves its
\* limits behind for the next run.
C7_AutoScaleOneRun ==
  [][ /\ LimitsSet' =>
           /\ Micro(run'.data_min) <= nanquantile(run'.da, 1)
           /\ nanquantile(run'.da, 1) <= nanquantile(run'.da, 99)
           /\ nanquantile(run'.da, 99) <= Micro(run'.data_max)
           /\ run'.slider_min = sliderMin'.value
           /\ run'.slider_max = sliderMax'.value
           /\ IF run'.button
              THEN /\ run'.cmin = nanquantile(run'.da, 1)
                   /\ run'.cmax = nanquantile(run'.da, 99)
              ELSE /\ run'.cmin = sliderMin'.value
                   /\ run'.cmax = sliderMax'.value
           /\ run'.fig => run'.cmin < run'.cmax
           /\ run'.cmin >= run'.cmax => run'.stage = "stop" /\ ~run'.fig
      /\ (run'.button /\ sliderMin'.id = sliderMin.id) =>
           sliderMin'.value = sliderMin.value
      /\ (run'.button /\ sliderMax'.id = sliderMax.id) =>
           sliderMax'.value = sliderMax.value
      /\ run'.button => LimitsSet
    ]_appVars

\* C7 witness: a plotted run that follows a button run; its limits are the
\* slider values and not the quantiles.
C7_Witness ==
  /\ run.prev.button
  /\ ~run.button
  /\ run.fig
  /\ run.cmin = sliderMin.value
  /\ run.cmax = sliderMax.value
  /\ run.cmin # nanquantile(run.da, 1)
  /\ run.cmax # nanquantile(run.da, 99)

\* C9: in every run that reaches the sliders, in absolute and in anomaly
\* mode, the initial values of the Min and Max sliders lie inside the bounds
\* [data_min, data_max] the sliders are given, and the step is positive (1e-6
\* when default_max equals default_min).
C9_DefaultsInsideBounds ==
  FieldSet =>
    /\ run.data_min <= run.default_min
    /\ run.default_min <= run.default_max
    /\ run.default_max <= run.data_max
    /\ run.step > 0
    /\ run.default_max = run.default_min => run.step = 1

RECURSIVE Flatten(_)
\* the line strings of all geometries, in order
Flatten(geoms) ==
  IF geoms = <<>> THEN <<>>
  ELSE geoms_of(Head(geoms)) \o Flatten(Tail(geoms))

\* the points of a line with longitudes taken modulo 360
Reduced(line) ==
  [k \in 1..Len(line.coords) |-> <<line.coords[k][1] % 360, line.coords[k][2]>>]

RECURSIVE WithBreaks(_, _)
\* the points of a line with a NaN/NaN pair between two consecutive points
\* whose longitudes differ by more than gap
WithBreaks(pts, gap) ==
  IF Len(pts) <= 1 THEN pts
  ELSE <<pts[1]>>
       \o (IF Abs(pts[2][1] - pts[1][1]) > gap THEN << <<NaN, NaN>> >> ELSE <<>>)
       \o WithBreaks(Tail(pts), gap)

RECURSIVE Polyline(_, _)
\* every line preceded by one NaN/NaN pair
Polyline(lines, gap) ==
  IF lines = <<>> THEN <<>>
  ELSE << <<NaN, NaN>> >> \o WithBreaks(Reduced(Head(lines)), gap)
       \o Polyline(Tail(lines), gap)

\* C8: coastlines_trace builds a polyline with gap breaks: x and y have the
\* same length; every line string of every geometry is preceded by one
\* NaN/NaN separator; its points follow in their order with longitudes in
\* [0, 360); a NaN/NaN break stands between two consecutive points of a line
\* exactly when their reduced longitudes differ by more than gap (10), never
\* after the last point; so no drawn segment spans more than gap degrees.
C8_PolylineWithGapBreaks ==
  /\ Len(out.xs) = Len(out.ys)
  /\ \A k \in 1..Len(out.xs) :
       /\ out.xs[k] = NaN <=> out.ys[k] = NaN
       /\ out.xs[k] # NaN => 0 <= out.xs[k] /\ out.xs[k] < 360
       /\ (k < Len(out.xs) /\ out.xs[k] # NaN /\ out.xs[k + 1] # NaN) =>
            Abs(out.xs[k + 1] - out.xs[k]) <= DefaultGap
  /\ out.pc = "returned" =>
       /\ [k \in 1..Len(out.xs) |-> <<out.xs[k], out.ys[k]>>]
            = Polyline(Flatten(inp), DefaultGap)
       /\ out.xs # <<>> /\ out.xs[1] = NaN
       /\ (Flatten(inp)[Len(Flatten(inp))].coords # <<>>) =>
            out.xs[Len(out.xs)] # NaN

\* C8 witness: a returned trace with a break where the longitude wraps from
\* 355 to 3, and 3 and 13, exactly gap apart, joined.
C8_Witness ==
  /\ out.pc = "returned"
  /\ \E k \in 1..Len(out.xs) - 2 :
       out.xs[k] = 355 /\ out.xs[k + 1] = NaN /\ out.xs[k + 2] = 3
  /\ \E k \in 1..Len(out.xs) - 1 : out.xs[k] = 3 /\ out.xs[k + 1] = 13

\* C10: cache keys never collide: over all YEARS and all rows of SURFACE and
\* PRESSURE, selections that differ in (year, domain, variable) have
\* different URLs, the short name z with code 129 of both tables included,
\* and selections that differ in (domain, variable, level) have different
\* climatology files.
C10_KeysNeverCollide ==
  out # <<>> =>
    /\ \A y \in 1..Len(YEARS) :
         \A row \in Rows :
           <<YEARS[y], row[2], row[1]>> # <<inp[1], inp[2][2], inp[2][1]>> =>
             rda_url(YEARS[y], row[2], row[3], row[4]) # out.url
    /\ \A k \in LevelSelections :
         <<k[1][2], k[1][1], k[2]>> # <<inp[2][2], inp[2][1], inp[3]>> =>
           clim_path(k[1][2], k[1][4], k[2]) # out.path

\* C10 witness: the keys of pressure-level Geopotential, whose short name
\* and code the surface table has too.
C10_Witness ==
  /\ out # <<>>
  /\ inp[2][1] = "Geopotential"
  /\ inp[2][4] = SURFACE[3][4]
  /\ inp[2][3] = SURFACE[3][3]
  /\ inp[3] = 500

====
